---------------------------- MODULE Spec2Model ----------------------------
(***************************************************************************)
(* filetrack: persistent, resumable reading of rotated log files.          *)
(*                                                                         *)
(* The module models the Multireader (src/src/multireader.rs) and the      *)
(* TrackedReader built on it (src/src/tracked_reader.rs) together with the *)
(* part of the filesystem they look at: the log path, its rotated          *)
(* predecessors <path>.1, <path>.2 and the registry file.                  *)
(*                                                                         *)
(* A file is named by its inode.  Its content is abstracted to its size:   *)
(* byte number p of the file with inode i is the pair <<i, p>>, so all     *)
(* bytes of all files are distinct and a delivered stream can be compared  *)
(* with the files it was read from.                                        *)
(***************************************************************************)
EXTENDS Integers, Sequences, FiniteSets, TLC

\* largest size of one file / source, in bytes
MaxSize == 2
\* number of files (inodes, log generations, sources) that ever exist
MaxFiles == 2

\* bincode's fixed-width encoding of a u64: 8 little-endian bytes
WordBytes == 8
\* values of one byte
ByteRange == 256

VARIABLES
    fsize,          \* fsize[i]: current size of the file with inode i
    paths,          \* paths[1]: inode at <path>, paths[k+1]: inode at <path>.k, 0: no file
    registry,       \* the registry file: [exists, bytes]
    rd,             \* "none": no reader is alive, "open": new returned one
    mr,             \* the Multireader: items, offsets, global_offset, cursor of each item
    inodes,         \* TrackedReader.inodes
    already_freed,  \* TrackedReader.already_freed
    last,           \* the last call: its name, its result and what it returned
    delivered,      \* bytes returned by reads (history)
    origin          \* where the delivered bytes start: after new or a seek, and the offset (history)

vars == <<fsize, paths, registry, rd, mr, inodes, already_freed, last, delivered, origin>>

-----------------------------------------------------------------------------
(* Helpers *)

Min(a, b) == IF a < b THEN a ELSE b

Max(a, b) == IF a > b THEN a ELSE b

\* the bytes p .. q-1 of the file with inode i
Bytes(i, p, q) == [j \in 1..Max(q - p, 0) |-> <<i, p + j - 1>>]

RECURSIVE SumSizes(_, _, _)
\* total size of items[1..k]
SumSizes(sz, items, k) ==
    IF k = 0 THEN 0 ELSE SumSizes(sz, items, k - 1) + sz[items[k]]

RECURSIVE Concat(_, _, _)
\* the virtual concatenation of items[from..Len(items)]
Concat(sz, items, from) ==
    IF from > Len(items) THEN <<>>
    ELSE Bytes(items[from], 0, sz[items[from]]) \o Concat(sz, items, from + 1)

IsPrefix(s, t) == Len(s) <= Len(t) /\ s = SubSeq(t, 1, Len(s))

-----------------------------------------------------------------------------
(* Multireader, src/src/multireader.rs *)

\* SeekFrom
Start(o) == [kind |-> "Start", off |-> o]
End(o) == [kind |-> "End", off |-> o]
Current(o) == [kind |-> "Current", off |-> o]

RECURSIVE RunningTotal(_, _)
RunningTotal(sizes, total) ==
    IF sizes = <<>> THEN <<>>
    ELSE <<total + Head(sizes)>> \o RunningTotal(Tail(sizes), total + Head(sizes))

produce_total_offsets(sizes) == RunningTotal(sizes, 0)

\* every item is measured by seek(End(0)) and left at Start(0); the last size is dropped
get_sizes_fallible(sz, items) == [k \in 1..(Len(items) - 1) |-> sz[items[k]]]

Multireader_new(sz, items) ==
    [items |-> items,
     offsets |-> produce_total_offsets(get_sizes_fallible(sz, items)),
     global_offset |-> 0,
     pos |-> [k \in 1..Len(items) |-> 0]]

get_global_offset(m) == m.global_offset

len(m) == Len(m.items)

RECURSIVE RightmostStrict(_, _, _)
\* variant: the loop compares with > and leaves the seam to the older item
RightmostStrict(offsets, g, i) ==
    IF i > Len(offsets) THEN i - 1
    ELSE IF g > offsets[i] THEN RightmostStrict(offsets, g, i + 1)
    ELSE i - 1

get_current_item_index_strict(m) == RightmostStrict(m.offsets, m.global_offset, 1)

RECURSIVE Rightmost(_, _, _)
\* the loop of get_current_item_index over offsets[i..]
Rightmost(offsets, g, i) ==
    IF i > Len(offsets) THEN i - 1
    ELSE IF g >= offsets[i] THEN Rightmost(offsets, g, i + 1)
    ELSE i - 1

\* 0-based, as in the source
get_current_item_index(m) == Rightmost(m.offsets, m.global_offset, 1)

\* variant: the offset of the current item is not subtracted
get_local_offset_global(m) == m.global_offset

get_local_offset(m) ==
    LET item_index == get_current_item_index(m)
    IN IF item_index = 0 THEN m.global_offset
       ELSE m.global_offset - m.offsets[item_index]

get_bytes_before_current_item(m) ==
    IF get_current_item_index(m) = 0 THEN 0
    ELSE m.offsets[get_current_item_index(m)]

\* variant: the read does not advance global_offset
read_no_advance(m, c) ==
    LET k == Rightmost(m.offsets, m.global_offset, 1) + 1
    IN [m EXCEPT !.pos[k] = @ + c]

\* Read::read that returns c bytes: delegated to the current item, whose cursor advances
read(m, c) ==
    LET k == get_current_item_index(m) + 1
    IN [m EXCEPT !.pos[k] = @ + c, !.global_offset = @ + c]

\* what the current item can still return from its cursor
Available(sz, m) ==
    LET k == get_current_item_index(m) + 1
    IN Max(sz[m.items[k]] - m.pos[k], 0)

\* the bytes a read of c bytes returns
ReadBytes(m, c) ==
    LET k == get_current_item_index(m) + 1
    IN Bytes(m.items[k], m.pos[k], m.pos[k] + c)

\* variant: global_offset is set and the cursors of the items are left where they are
seek_start_keep_cursors(sz, m, offset) == [m EXCEPT !.global_offset = offset]

\* variant: the target is stored as far as the end of the last item only
seek_start_clamped(sz, m, offset) ==
    LET m1 == [m EXCEPT !.global_offset = Min(offset, SumSizes(sz, m.items, len(m)))]
        item_index == get_current_item_index(m1)
        local_offset == get_local_offset(m1)
    IN [m1 EXCEPT !.pos = [j \in 1..Len(m.items) |->
                              IF j - 1 < item_index THEN sz[m.items[j]]
                              ELSE IF j - 1 = item_index THEN local_offset
                              ELSE 0]]

\* variant: the items behind the new current item keep their cursors
seek_start_no_rewind(sz, m, offset) ==
    LET m1 == [m EXCEPT !.global_offset = offset]
        item_index == get_current_item_index(m1)
        local_offset == get_local_offset(m1)
    IN [m1 EXCEPT !.pos = [j \in 1..Len(m.items) |->
                              IF j - 1 < item_index THEN sz[m.items[j]]
                              ELSE IF j - 1 = item_index THEN local_offset
                              ELSE m.pos[j]]]

\* Seek::seek(SeekFrom::Start(offset))
seek_start(sz, m, offset) ==
    LET m1 == [m EXCEPT !.global_offset = offset]
        item_index == get_current_item_index(m1)
        local_offset == get_local_offset(m1)
    IN [m1 EXCEPT !.pos = [j \in 1..Len(m.items) |->
                              IF j - 1 < item_index THEN sz[m.items[j]]
                              ELSE IF j - 1 = item_index THEN local_offset
                              ELSE 0]]


-----------------------------------------------------------------------------
(* The registry record, src/src/tracked_reader.rs *)

RECURSIVE ToLE(_, _)
\* bincode: an unsigned integer as k little-endian bytes
ToLE(n, k) == IF k = 0 THEN <<>> ELSE <<n % ByteRange>> \o ToLE(n \div ByteRange, k - 1)

RECURSIVE FromLE(_)
FromLE(bytes) ==
    IF bytes = <<>> THEN 0 ELSE Head(bytes) + ByteRange * FromLE(Tail(bytes))

\* bincode::serialize of State: the fields in declaration order, offset then inode
Serialize(st) == ToLE(st.offset, WordBytes) \o ToLE(st.inode, WordBytes)

\* Option<State>: <<>> is None, <<st>> is Some(st)
None == <<>>
Some(st) == <<st>>

\* State::load: rewind, then decode a fixed-length prefix; a short file is an error
State_load(bytes) ==
    IF Len(bytes) < 2 * WordBytes THEN [res |-> "persistence", state |-> None]
    ELSE [res |-> "ok",
          state |-> Some([offset |-> FromLE(SubSeq(bytes, 1, WordBytes)),
                          inode |-> FromLE(SubSeq(bytes, WordBytes + 1, 2 * WordBytes))])]

\* variant: no rewind, the record is written behind what the file holds
State_persist_append(st, bytes) == bytes \o Serialize(st)

\* State::persist: rewind, then overwrite in place; bytes behind the record stay
State_persist(st, bytes) ==
    Serialize(st) \o SubSeq(bytes, 2 * WordBytes + 1, Len(bytes))

-----------------------------------------------------------------------------
(* TrackedReader, src/src/tracked_reader.rs *)

\* the places of TrackedReader::new where the operating system can fail a call
Faults ==
    {"none", "registry_open", "registry_read", "log_metadata", "log_open",
     "older_metadata", "older_open", "open_state_file", "multireader_new",
     "seek_state", "persist", "seek_initial"}

NoReader == [items |-> <<>>, offsets |-> <<>>, global_offset |-> 0, pos |-> <<>>]

\* variant: the global offset is saved with the inode of the current item
get_persistent_state_global(m, ino) ==
    [offset |-> m.global_offset, inode |-> ino[Rightmost(m.offsets, m.global_offset, 1) + 1]]

get_persistent_state(m, ino) ==
    IF len(m) = 1
    THEN [offset |-> get_global_offset(m), inode |-> ino[1]]
    ELSE [offset |-> get_local_offset(m), inode |-> ino[get_current_item_index(m) + 1]]

\* TrackedReader::persist on the open registry file
persist(m, ino, reg) ==
    [reg EXCEPT !.bytes = State_persist(get_persistent_state(m, ino), reg.bytes)]

maybe_read_state(reg, fault) ==
    IF ~reg.exists THEN [res |-> "ok", state |-> None]
    ELSE IF fault = "registry_open" THEN [res |-> "io", state |-> None]
    ELSE IF fault = "registry_read" THEN [res |-> "persistence", state |-> None]
    ELSE State_load(reg.bytes)

get_rotated_filename(pth) == pth[2]

open_files(pth, state, fault) ==
    LET failed(kind) == [res |-> kind, files |-> <<>>, inodes |-> <<>>]
        current == pth[1]
        older == get_rotated_filename(pth)
    IN IF current = 0 \/ fault \in {"log_metadata", "log_open"} THEN failed("io")
       ELSE IF state = None THEN
           [res |-> "ok", files |-> <<current>>, inodes |-> <<current>>]
       ELSE IF current = state[1].inode THEN
           [res |-> "ok", files |-> <<current>>, inodes |-> <<current>>]
       ELSE IF older = 0 \/ fault = "older_metadata" THEN failed("io")
       ELSE IF older # state[1].inode THEN failed("rotation")
       ELSE IF fault = "older_open" THEN failed("io")
       ELSE [res |-> "ok", files |-> <<older, current>>, inodes |-> <<older, current>>]

\* File::options().read(true).write(true).create(true).open(path)
open_state_file(reg) == IF reg.exists THEN reg ELSE [exists |-> TRUE, bytes |-> <<>>]

\* variant: already_freed is not looked at
drop_always(m, ino, freed, reg, persistFails) ==
    IF persistFails THEN [res |-> "panic", registry |-> reg, writes |-> 0]
    ELSE [res |-> "ok", registry |-> persist(m, ino, reg), writes |-> 1]

\* Drop for TrackedReader: persist unless closed; a failing persist panics
drop(m, ino, freed, reg, persistFails) ==
    IF freed THEN [res |-> "ok", registry |-> reg, writes |-> 0]
    ELSE IF persistFails THEN [res |-> "panic", registry |-> reg, writes |-> 0]
    ELSE [res |-> "ok", registry |-> persist(m, ino, reg), writes |-> 1]

\* TrackedReader::close: persist, mark, and the drop of self on every way out
close(m, ino, reg, persistFails, dropFails) ==
    IF persistFails
    THEN LET d == drop(m, ino, FALSE, reg, dropFails)
         IN [res |-> IF d.res = "panic" THEN "panic" ELSE "io",
             registry |-> d.registry, writes |-> d.writes]
    ELSE LET reg1 == persist(m, ino, reg)
             d == drop(m, ino, TRUE, reg1, dropFails)
         IN [res |-> d.res, registry |-> d.registry, writes |-> 1 + d.writes]

\* variant: the registry created by new is left empty
initialize_registry_never(state, m, ino, reg) == reg

\* TrackedReader::new, the registry after the reader is built: when no record was
\* loaded the registry was created empty and is given a first record at once
initialize_registry(state, m, ino, reg) ==
    IF state # None THEN reg ELSE persist(m, ino, reg)

\* TrackedReader::new.  fault: the call the operating system fails (if reached);
\* dropFails: whether the persist of a reader dropped on an error path fails too.
\* at: the step that made new fail.
TrackedReader_new(reg, pth, sz, fault, dropFails) ==
    LET failed(kind, at, r, w) ==
            [res |-> kind, at |-> at, registry |-> r, mr |-> NoReader, inodes |-> <<>>,
             writes |-> w]
        \* an error after the reader was built: the reader is dropped on the way out
        dropped(at, r, m, ino, w) ==
            LET d == drop(m, ino, FALSE, r, dropFails)
            IN failed(IF d.res = "panic" THEN "panic" ELSE "io", at, d.registry, w + d.writes)
        state_from_disk == maybe_read_state(reg, fault)
    IN
    IF state_from_disk.res # "ok" THEN failed(state_from_disk.res, "maybe_read_state", reg, 0)
    ELSE
    LET state == state_from_disk.state
        opened == open_files(pth, state, fault)
        initial_offset == IF state = None THEN 0 ELSE state[1].offset
    IN
    IF opened.res # "ok" THEN failed(opened.res, "open_files", reg, 0)
    ELSE IF fault = "open_state_file" THEN failed("io", "open_state_file", reg, 0)
    ELSE
    LET reg1 == open_state_file(reg)
        m0 == Multireader_new(sz, opened.files)
        ino == opened.inodes
    IN
    IF fault = "multireader_new" THEN failed("io", "Multireader_new", reg1, 0)
    ELSE IF state # None /\ fault = "seek_state"
    THEN dropped("seek", reg1, [m0 EXCEPT !.global_offset = state[1].offset], ino, 0)
    ELSE IF state = None /\ fault = "persist"
    THEN dropped("persist", reg1, m0, ino, 0)
    ELSE
    LET m1 == IF state # None THEN seek_start(sz, m0, state[1].offset) ELSE m0
        reg2 == initialize_registry(state, m0, ino, reg1)
        w == IF state = None THEN 1 ELSE 0
    IN
    IF fault = "seek_initial"
    THEN dropped("seek", reg2, [m1 EXCEPT !.global_offset = initial_offset], ino, w)
    ELSE [res |-> "ok", at |-> "", registry |-> reg2,
          mr |-> seek_start(sz, m1, initial_offset), inodes |-> ino, writes |-> w]

-----------------------------------------------------------------------------
(* The filesystem around the reader *)

\* a call as its caller sees it: the argument, the kind of result, the value returned;
\* and, for the properties, the registry writes it made, the step it failed at and
\* whether the operating system failed one of its calls
Call(op, arg, res, val, writes, at, faulted) ==
    [op |-> op, arg |-> arg, res |-> res, val |-> val, writes |-> writes, at |-> at,
     faulted |-> faulted]

NoRegistry == [exists |-> FALSE, bytes |-> <<>>]

\* the writer of the log appends one byte to the live file
AppendLog ==
    /\ paths[1] # 0
    /\ fsize[paths[1]] < MaxSize
    /\ fsize' = [fsize EXCEPT ![paths[1]] = @ + 1]
    /\ UNCHANGED <<paths, registry, rd, mr, inodes, already_freed, last, delivered, origin>>

\* logrotate: <path>.1 moves to <path>.2, <path> to <path>.1, a fresh file is created.
\* A reader looks at the paths in new only and keeps its open files, so a rotation
\* during a run is seen as one right after it: rotations are taken between runs.
Rotate ==
    /\ rd = "none"
    /\ Len(fsize) < MaxFiles
    /\ fsize' = Append(fsize, 0)
    /\ paths' = <<Len(fsize) + 1, paths[1], paths[2]>>
    /\ UNCHANGED <<registry, rd, mr, inodes, already_freed, last, delivered, origin>>

\* a rotated file is deleted (its open handles keep reading it)
Remove ==
    /\ rd = "none"
    /\ \E k \in 2..Len(paths) :
          /\ paths[k] # 0
          /\ paths' = [paths EXCEPT ![k] = 0]
    /\ UNCHANGED <<fsize, registry, rd, mr, inodes, already_freed, last, delivered, origin>>

-----------------------------------------------------------------------------
(* The calls of a consumer *)

NewOp(faults) ==
    /\ rd = "none"
    /\ \E fault \in faults, dropFails \in BOOLEAN :
          LET r == TrackedReader_new(registry, paths, fsize, fault, dropFails)
              clean == TrackedReader_new(registry, paths, fsize, "none", dropFails)
          IN /\ (fault = "none" => ~dropFails)
             /\ (dropFails => r.res = "panic")
             /\ registry' = r.registry
             /\ rd' = IF r.res = "ok" THEN "open" ELSE "none"
             /\ mr' = r.mr
             /\ inodes' = r.inodes
             /\ already_freed' = FALSE
             /\ last' = Call("new", 0, r.res, 0, r.writes, r.at, r # clean)
    /\ UNCHANGED <<fsize, paths, delivered, origin>>

\* one read with a non-empty buffer: the current item returns what it has, at least
\* one byte when its cursor is not at its end
ReadOp(track) ==
    /\ rd # "none"
    /\ \E c \in 0..Available(fsize, mr) :
          /\ (c = 0) = (Available(fsize, mr) = 0)
          /\ mr' = read(mr, c)
          /\ last' = Call("read", 0, "ok", c, 0, "", FALSE)
          /\ delivered' = IF track THEN delivered \o ReadBytes(mr, c) ELSE delivered
    /\ UNCHANGED <<fsize, paths, registry, rd, inodes, already_freed, origin>>

\* seek(SeekFrom::Start(o)) for a target o of the caller's choice
SeekOp(track, targets) ==
    /\ rd # "none"
    /\ \E o \in targets :
          /\ mr' = seek_start(fsize, mr, o)
          /\ last' = Call("seek", o, "ok", get_global_offset(seek_start(fsize, mr, o)), 0, "", FALSE)
          /\ origin' = IF track THEN [by |-> "seek", at |-> o] ELSE origin
    /\ delivered' = <<>>
    /\ UNCHANGED <<fsize, paths, registry, rd, inodes, already_freed>>

Released == UNCHANGED <<fsize, paths, delivered, origin>> /\ rd' = "none" /\ mr' = NoReader
                /\ inodes' = <<>>

CloseOp(fails) ==
    /\ rd = "open"
    /\ \E persistFails \in fails, dropFails \in fails :
          LET r == close(mr, inodes, registry, persistFails, dropFails)
          IN /\ (dropFails => persistFails)
             /\ registry' = r.registry
             /\ already_freed' = (r.res = "ok")
             /\ last' = Call("close", 0, r.res, 0, r.writes, "", persistFails)
    /\ Released

DropOp(fails) ==
    /\ rd = "open"
    /\ \E persistFails \in fails :
          LET r == drop(mr, inodes, already_freed, registry, persistFails)
          IN /\ registry' = r.registry
             /\ last' = Call("drop", 0, r.res, 0, r.writes, "", persistFails)
    /\ already_freed' = FALSE
    /\ Released

\* the process ends without close and without drop (abort, kill, mem::forget)
Forget ==
    /\ rd = "open"
    /\ last' = Call("forget", 0, "ok", 0, 0, "", FALSE)
    /\ UNCHANGED <<registry>>
    /\ already_freed' = FALSE
    /\ Released

-----------------------------------------------------------------------------
(* Spec: a log, its rotation, and the runs of a consumer using a TrackedReader,
   with the operating system free to fail the calls of new, close and drop *)

Init ==
    /\ fsize \in [1..1 -> 0..MaxSize]
    /\ paths = <<1, 0, 0>>
    /\ registry = NoRegistry
    /\ rd = "none"
    /\ mr = NoReader
    /\ inodes = <<>>
    /\ already_freed = FALSE
    /\ last = Call("init", 0, "ok", 0, 0, "", FALSE)
    /\ delivered = <<>>
    /\ origin = [by |-> "new", at |-> 0]

New == NewOp(Faults)

Read == ReadOp(FALSE)

\* a caller seeks to a position inside a file, at its end or past it
Seek == SeekOp(FALSE, 0..(MaxSize + 1))

Close == CloseOp(BOOLEAN)

Drop == DropOp(BOOLEAN)

Next == AppendLog \/ Rotate \/ Remove \/ New \/ Read \/ Seek \/ Close \/ Drop \/ Forget

Spec == Init /\ [][Next]_vars

-----------------------------------------------------------------------------
(* SpecRuns: the runs of a consumer that only reads forward and ends every run with
   close or drop, on a system whose calls do not fail; the bytes of all runs are
   recorded in delivered *)

\* the first run opens the first generation of the log: rotations are counted from it
RunRotate == registry.exists /\ Rotate

RunNew == NewOp({"none"})

RunRead == ReadOp(TRUE)

RunClose == CloseOp({FALSE})

RunDrop == DropOp({FALSE})

NextRuns == AppendLog \/ RunRotate \/ RunNew \/ RunRead \/ RunClose \/ RunDrop

SpecRuns == Init /\ [][NextRuns]_vars

-----------------------------------------------------------------------------
(* SpecMR: a Multireader over one to MaxItems in-memory sources *)

\* number of sources of a Multireader
MaxItems == 3

InitMR ==
    /\ \E n \in 1..MaxItems :
          /\ fsize \in [1..n -> 0..MaxSize]
          /\ mr = Multireader_new(fsize, [k \in 1..n |-> k])
    /\ paths = <<0, 0, 0>>
    /\ registry = NoRegistry
    /\ rd = "multireader"
    /\ inodes = <<>>
    /\ already_freed = FALSE
    /\ last = Call("new", 0, "ok", 0, 0, "", FALSE)
    /\ delivered = <<>>
    /\ origin = [by |-> "new", at |-> 0]

MRRead == ReadOp(TRUE)

\* a caller seeks anywhere from the start to past the end of the last source
MRSeek == SeekOp(TRUE, 0..(SumSizes(fsize, mr.items, len(mr)) + 1))

NextMR == MRRead \/ MRSeek

SpecMR == InitMR /\ [][NextMR]_vars

-----------------------------------------------------------------------------
(* The rest of the public interface of Multireader, src/src/multireader.rs *)

\* Seek::seek of one source (io::Cursor, BufReader<File>): the new cursor, any value
\* from 0 up, also behind the end; a negative target is an invalid-input error
item_seek(size, cursor, pos) ==
    LET target == IF pos.kind = "Start" THEN pos.off
                  ELSE IF pos.kind = "End" THEN size + pos.off
                  ELSE cursor + pos.off
    IN IF target < 0 THEN [res |-> "invalid", val |-> cursor]
       ELSE [res |-> "ok", val |-> target]

\* variant: the cursor of the last item is taken for its size
get_last_item_size_cursor(sz, m) == m.pos[len(m)]

\* stream_position, seek(End(0)), seek(Start(original)): the cursor is put back
get_last_item_size(sz, m) == sz[m.items[len(m)]]

get_total_size(sz, m) ==
    LET pre_last_total == IF m.offsets = <<>> THEN 0 ELSE m.offsets[Len(m.offsets)]
    IN pre_last_total + get_last_item_size(sz, m)

\* what a call returns: its result, its value, and the reader it leaves
Ret(res, val, m) == [res |-> res, val |-> val, mr |-> m]

\* variant: a negative target is taken as the start
seek_saturating(sz, m, pos) ==
    LET target == IF pos.kind = "Start" THEN pos.off
                  ELSE IF pos.kind = "End" THEN get_total_size(sz, m) + pos.off
                  ELSE m.global_offset + pos.off
    IN Ret("ok", Max(target, 0), seek_start(sz, m, Max(target, 0)))

\* Seek::seek, all three arms
seek(sz, m, pos) ==
    IF pos.kind = "Start" THEN Ret("ok", pos.off, seek_start(sz, m, pos.off))
    ELSE IF pos.kind = "End"
    THEN LET real_offset == get_total_size(sz, m) + pos.off
         IN IF real_offset < 0 THEN Ret("invalid", 0, m)
            ELSE Ret("ok", real_offset, seek_start(sz, m, real_offset))
    ELSE LET new_position == m.global_offset + pos.off
         IN IF new_position < 0 THEN Ret("invalid", 0, m)
            ELSE Ret("ok", new_position, seek_start(sz, m, new_position))

\* the cursor of the current item moves, and global_offset is rebuilt from the start
\* of the item that was current before the call
seek_current_item(sz, m, pos) ==
    LET k == get_current_item_index(m) + 1
        r == item_seek(sz[m.items[k]], m.pos[k], pos)
    IN IF r.res # "ok" THEN Ret(r.res, 0, m)
       ELSE Ret("ok", r.val,
                [m EXCEPT !.pos[k] = r.val,
                          !.global_offset = get_bytes_before_current_item(m) + r.val])

\* variant: always the start of the first item
seek_to_item_start_first(sz, m, item_index) == seek(sz, m, Start(0))

\* item_index is 0-based: offsets[item_index - 1] of the source is m.offsets[item_index]
seek_to_item_start(sz, m, item_index) ==
    IF item_index = 0 THEN seek(sz, m, Start(0))
    ELSE seek(sz, m, Start(m.offsets[item_index]))

\* variant: the position is counted from the start of the first item
seek_by_local_index_global(sz, m, item_index, pos) == seek(sz, m, pos)

seek_by_local_index(sz, m, item_index, pos) ==
    LET r == seek_to_item_start(sz, m, item_index)
    IN IF r.res # "ok" THEN r ELSE seek_current_item(sz, r.mr, pos)

\* offsets[current_index + 1] of the source is m.offsets[current_index + 2]; an index
\* past the end of the vector panics
get_current_item_size(m) ==
    LET current_index == get_current_item_index(m)
    IN IF current_index = len(m) - 1 THEN [res |-> "ok", val |-> None]
       ELSE IF current_index + 2 > Len(m.offsets) THEN [res |-> "panic", val |-> None]
       ELSE [res |-> "ok",
             val |-> Some(m.offsets[current_index + 2] - get_bytes_before_current_item(m))]

\* BufRead::fill_buf: the bytes the current item has buffered from its cursor on
fill_buf(sz, m) == ReadBytes(m, Available(sz, m))

\* variant: the bytes are taken from the item and global_offset stays
consume_no_advance(m, amt) ==
    LET k == get_current_item_index(m) + 1
    IN [m EXCEPT !.pos[k] = @ + amt]

\* BufRead::consume
consume(m, amt) ==
    LET k == get_current_item_index(m) + 1
    IN [m EXCEPT !.pos[k] = @ + amt, !.global_offset = @ + amt]

-----------------------------------------------------------------------------
(* InodeAwareReader, src/src/inode_aware.rs *)

\* variant: the global offset is handed out with the inode
get_persistent_offset_global(m, ino) ==
    [inode |-> ino[get_current_item_index(m) + 1], offset |-> get_global_offset(m)]

get_current_inode(m, ino) == ino[get_current_item_index(m) + 1]

get_persistent_offset(m, ino) ==
    [inode |-> get_current_inode(m, ino), offset |-> get_local_offset(m)]

\* variant: an inode that is not there is taken for the first item
get_item_index_by_inode_or_first(ino, inode) ==
    IF \E j \in 1..Len(ino) : ino[j] = inode
    THEN Some((CHOOSE j \in 1..Len(ino) :
                  ino[j] = inode /\ \A i \in 1..(j - 1) : ino[i] # inode) - 1)
    ELSE Some(0)

\* the first item with that inode, 0-based, or None
get_item_index_by_inode(ino, inode) ==
    IF \E j \in 1..Len(ino) : ino[j] = inode
    THEN Some((CHOOSE j \in 1..Len(ino) :
                  ino[j] = inode /\ \A i \in 1..(j - 1) : ino[i] # inode) - 1)
    ELSE None

seek_persistent(sz, m, ino, offset) ==
    LET inode_index == get_item_index_by_inode(ino, offset.inode)
    IN IF inode_index = None THEN Ret("not_found", 0, m)
       ELSE LET r == seek_by_local_index(sz, m, inode_index[1], Start(offset.offset))
            IN Ret(r.res, 0, r.mr)

-----------------------------------------------------------------------------
(* SpecBuf: a fresh Multireader consumed through Read and through BufRead *)

\* fill_buf, then consume of no more than fill_buf returned, as BufRead asks
ConsumeOp(track) ==
    /\ rd # "none"
    /\ \E amt \in 0..Len(fill_buf(fsize, mr)) :
          /\ mr' = consume(mr, amt)
          /\ last' = Call("consume", amt, "ok", amt, 0, "", FALSE)
          /\ delivered' = IF track THEN delivered \o SubSeq(fill_buf(fsize, mr), 1, amt)
                          ELSE delivered
    /\ UNCHANGED <<fsize, paths, registry, rd, inodes, already_freed, origin>>

BufRead == ReadOp(TRUE)

BufConsume == ConsumeOp(TRUE)

NextBuf == BufRead \/ BufConsume

SpecBuf == InitMR /\ [][NextBuf]_vars

-----------------------------------------------------------------------------
(* SpecMRX: a Multireader driven through all of its public operations *)

\* the relative moves a caller asks for: one back, none, one forward
Deltas == {0 - 1, 0, 1}

\* the positions a caller passes to seek
SeekFroms(total) ==
    {Start(o) : o \in 0..(total + 1)}
        \cup {End(d) : d \in {0 - total - 1} \cup Deltas}
        \cup {Current(d) : d \in Deltas}

\* the positions a caller passes to the seek of one item
ItemSeekFroms ==
    {Start(p) : p \in 0..(MaxSize + 1)} \cup {End(d) : d \in Deltas}
        \cup {Current(d) : d \in Deltas}

\* offsets and cursors are explored up to one past the end
Bounded(sz, m) ==
    /\ m.global_offset <= get_total_size(sz, m) + 1
    /\ \A k \in 1..len(m) : m.pos[k] <= sz[m.items[k]] + 1

\* a call that returned r
Returned(op, arg, r) ==
    /\ Bounded(fsize, r.mr)
    /\ mr' = r.mr
    /\ last' = Call(op, arg, r.res, r.val, 0, "", FALSE)
    /\ UNCHANGED <<fsize, paths, registry, rd, inodes, already_freed, delivered, origin>>

MRXRead == ReadOp(FALSE)

MRXConsume == ConsumeOp(FALSE)

MRXSeek ==
    \E pos \in SeekFroms(get_total_size(fsize, mr)) :
        Returned("seek", pos, seek(fsize, mr, pos))

MRXSeekCurrentItem ==
    \E pos \in ItemSeekFroms :
        Returned("seek_current_item", pos, seek_current_item(fsize, mr, pos))

MRXSeekToItemStart ==
    \E i \in 0..(len(mr) - 1) :
        Returned("seek_to_item_start", i, seek_to_item_start(fsize, mr, i))

\* an item and a position counted from its start, as the callers in this crate pass
MRXSeekByLocalIndex ==
    \E i \in 0..(len(mr) - 1), p \in 0..(MaxSize + 1) :
        Returned("seek_by_local_index", [item |-> i, pos |-> Start(p)],
                 seek_by_local_index(fsize, mr, i, Start(p)))

NextMRX ==
    \/ MRXRead \/ MRXConsume \/ MRXSeek \/ MRXSeekCurrentItem
    \/ MRXSeekToItemStart \/ MRXSeekByLocalIndex

SpecMRX == InitMR /\ [][NextMRX]_vars

-----------------------------------------------------------------------------
(* SpecIA: an InodeAwareReader over files of pairwise distinct inodes, driven by
   reads, seek(Start) and the round trip through its persistent offset *)

InitIA ==
    /\ \E n \in 1..MaxItems :
          /\ fsize \in [1..n -> 0..MaxSize]
          /\ mr = Multireader_new(fsize, [k \in 1..n |-> k])
          /\ inodes = [k \in 1..n |-> k]
    /\ paths = <<0, 0, 0>>
    /\ registry = NoRegistry
    /\ rd = "inode_aware"
    /\ already_freed = FALSE
    /\ last = Call("new", 0, "ok", 0, 0, "", FALSE)
    /\ delivered = <<>>
    /\ origin = [by |-> "new", at |-> 0]

IARead == ReadOp(FALSE)

IASeek == SeekOp(FALSE, 0..(get_total_size(fsize, mr) + 1))

\* seek_persistent(get_persistent_offset())
IARoundTrip ==
    LET offset == get_persistent_offset(mr, inodes)
    IN Returned("seek_persistent", offset, seek_persistent(fsize, mr, inodes, offset))

NextIA == IARead \/ IASeek \/ IARoundTrip

SpecIA == InitIA /\ [][NextIA]_vars

-----------------------------------------------------------------------------
(* Finding the rotated logs, src/src/path_utils.rs, and the InodeAwareReader over
   them, src/src/inode_aware.rs *)

\* Path::exists for <path>.i: the suffixes this filesystem has names for, and a file there
exists(pth, i) == i + 1 <= Len(pth) /\ pth[i + 1] # 0

RECURSIVE Reverse(_)
Reverse(s) == IF s = <<>> THEN <<>> ELSE Reverse(Tail(s)) \o <<Head(s)>>

RECURSIVE GlobLoop(_, _, _, _)
\* variant: a missing suffix is skipped and the search goes on
GlobLoopSkipping(pth, i, max_depth, result) ==
    IF i > max_depth THEN result
    ELSE IF ~exists(pth, i) THEN GlobLoop(pth, i + 1, max_depth, result)
    ELSE GlobLoop(pth, i + 1, max_depth, Append(result, [path |-> i, inode |-> pth[i + 1]]))

\* for i in 1..=max_depth: break at the first suffix that does not exist
GlobLoop(pth, i, max_depth, result) ==
    IF i > max_depth THEN result
    ELSE IF ~exists(pth, i) THEN result
    ELSE GlobLoop(pth, i + 1, max_depth, Append(result, [path |-> i, inode |-> pth[i + 1]]))

\* pairs of path (its suffix, 0 for <path> itself) and inode, oldest first
glob_rotated_logs(pth, max_depth) ==
    IF pth[1] = 0 THEN [res |-> "io", val |-> <<>>]
    ELSE [res |-> "ok",
          val |-> Reverse(GlobLoop(pth, 1, max_depth, <<[path |-> 0, inode |-> pth[1]]>>))]

from_rotated_logs_with_depth(pth, sz, max_depth) ==
    LET paths_and_inodes == glob_rotated_logs(pth, max_depth)
    IN IF paths_and_inodes.res # "ok"
       THEN [res |-> paths_and_inodes.res, found |-> <<>>, mr |-> NoReader, inodes |-> <<>>]
       ELSE LET found == paths_and_inodes.val
                files == [k \in 1..Len(found) |-> pth[found[k].path + 1]]
            IN [res |-> "ok", found |-> found,
                mr |-> Multireader_new(sz, files),
                inodes |-> [k \in 1..Len(found) |-> found[k].inode]]

-----------------------------------------------------------------------------
(* SpecLogs: a log that is appended to, rotated and cleaned up, and the
   InodeAwareReaders opened over it with a search depth *)

\* logrotate keeping two predecessors: the file at <path>.2 loses its name
LogsRotate ==
    /\ rd = "none"
    /\ Len(fsize) <= MaxFiles
    /\ fsize' = Append(fsize, 0)
    /\ paths' = <<Len(fsize) + 1, paths[1], paths[2]>>
    /\ UNCHANGED <<registry, rd, mr, inodes, already_freed, last, delivered, origin>>

\* any of the names is removed
LogsRemove ==
    /\ rd = "none"
    /\ \E k \in 1..Len(paths) :
          /\ paths[k] # 0
          /\ paths' = [paths EXCEPT ![k] = 0]
    /\ UNCHANGED <<fsize, registry, rd, mr, inodes, already_freed, last, delivered, origin>>

LogsOpen ==
    /\ rd = "none"
    /\ \E max_depth \in 0..(Len(paths) - 1) :
          LET r == from_rotated_logs_with_depth(paths, fsize, max_depth)
          IN /\ rd' = IF r.res = "ok" THEN "inode_aware" ELSE "none"
             /\ mr' = r.mr
             /\ inodes' = r.inodes
             /\ last' = Call("from_rotated_logs_with_depth", max_depth, r.res, r.found,
                             0, "", FALSE)
    /\ UNCHANGED <<fsize, paths, registry, already_freed, delivered, origin>>

\* seek_persistent with an offset of the caller's choice: the inode of any file that
\* ever existed, or of none
LogsSeekPersistent ==
    /\ rd = "inode_aware"
    /\ \E inode \in 1..(Len(fsize) + 1), offset \in 0..(MaxSize + 1) :
          Returned("seek_persistent", [inode |-> inode, offset |-> offset],
                   seek_persistent(fsize, mr, inodes, [inode |-> inode, offset |-> offset]))

\* the reader is given up (into_inner, or it goes out of scope)
LogsRelease ==
    /\ rd = "inode_aware"
    /\ last' = Call("into_inner", 0, "ok", 0, 0, "", FALSE)
    /\ UNCHANGED <<registry, already_freed>>
    /\ Released

NextLogs == AppendLog \/ LogsRotate \/ LogsRemove \/ LogsOpen \/ LogsSeekPersistent \/ LogsRelease

SpecLogs == Init /\ [][NextLogs]_vars

-----------------------------------------------------------------------------
(* SpecCmp: compare_offsets applied to pairs of persistent offsets *)

\* Ord::cmp
cmp(a, b) == IF a < b THEN "Less" ELSE IF a = b THEN "Equal" ELSE "Greater"

\* variant: the offsets alone are compared
compare_offsets_by_offset(ino, first, second) ==
    IF get_item_index_by_inode(ino, first.inode) = None THEN None
    ELSE IF get_item_index_by_inode(ino, second.inode) = None THEN None
    ELSE Some(cmp(first.offset, second.offset))

compare_offsets(ino, first, second) ==
    LET first_index == get_item_index_by_inode(ino, first.inode)
        second_index == get_item_index_by_inode(ino, second.inode)
    IN IF first_index = None THEN None
       ELSE IF second_index = None THEN None
       ELSE IF first_index = second_index THEN Some(cmp(first.offset, second.offset))
       ELSE Some(cmp(first_index[1], second_index[1]))

\* the persistent offsets a caller may hold: the inodes of the reader and one it does
\* not have, with an offset up to the size of a file
InodeAwareOffsets(ino) ==
    [inode : 1..(Len(ino) + 1), offset : 0..MaxSize]

\* an InodeAwareReader over one to MaxItems full files
InitCmp ==
    /\ \E n \in 1..MaxItems :
          /\ fsize = [k \in 1..n |-> MaxSize]
          /\ mr = Multireader_new(fsize, [k \in 1..n |-> k])
          /\ inodes = [k \in 1..n |-> k]
    /\ paths = <<0, 0, 0>>
    /\ registry = NoRegistry
    /\ rd = "inode_aware"
    /\ already_freed = FALSE
    /\ last = Call("new", 0, "ok", 0, 0, "", FALSE)
    /\ delivered = <<>>
    /\ origin = [by |-> "new", at |-> 0]

Compare ==
    \E first \in InodeAwareOffsets(inodes), second \in InodeAwareOffsets(inodes) :
        /\ last' = Call("compare_offsets", [first |-> first, second |-> second], "ok",
                        compare_offsets(inodes, first, second), 0, "", FALSE)
        /\ UNCHANGED <<fsize, paths, registry, rd, mr, inodes, already_freed, delivered, origin>>

NextCmp == Compare

SpecCmp == InitCmp /\ [][NextCmp]_vars

-----------------------------------------------------------------------------
(* SpecPersist: a consumer that reads, seeks and saves its position with persist
   during a run, on a system whose calls do not fail *)

\* persist calls in a row that are told apart
MaxRepeat == 2

\* TrackedReader::persist; last.val counts the persist calls made in a row
Persist ==
    /\ rd = "open"
    /\ (last.op = "persist" => last.val < MaxRepeat)
    /\ registry' = persist(mr, inodes, registry)
    /\ last' = Call("persist", 0, "ok", IF last.op = "persist" THEN last.val + 1 ELSE 1,
                    1, "", FALSE)
    /\ UNCHANGED <<fsize, paths, rd, mr, inodes, already_freed, delivered, origin>>

NextPersist == AppendLog \/ RunRotate \/ RunNew \/ Read \/ Seek \/ Persist \/ RunDrop

SpecPersist == Init /\ [][NextPersist]_vars

-----------------------------------------------------------------------------
(* SpecGrow: a Multireader whose last source is a file that is still written to;
   the sizes are asked for and the reader is moved relative to the end *)

\* variant: the last item is left at its end
get_last_item_size_no_restore(sz, m) ==
    LET n == len(m)
        size == item_seek(sz[m.items[n]], m.pos[n], End(0)).val
    IN [res |-> "ok", val |-> size, mr |-> [m EXCEPT !.pos[n] = size]]

\* get_last_item_size as a call on the reader: the position is taken, the item is
\* moved to its end to learn its size and then moved back
get_last_item_size_ret(sz, m) ==
    LET n == len(m)
        original_offset == m.pos[n]
        size == item_seek(sz[m.items[n]], m.pos[n], End(0)).val
        m1 == [m EXCEPT !.pos[n] = size]
        back == item_seek(sz[m.items[n]], size, Start(original_offset)).val
    IN [res |-> "ok", val |-> size, mr |-> [m1 EXCEPT !.pos[n] = back]]

\* get_total_size as a call on the reader
get_total_size_ret(sz, m) ==
    LET pre_last_total == IF m.offsets = <<>> THEN 0 ELSE m.offsets[Len(m.offsets)]
        last_item == get_last_item_size_ret(sz, m)
    IN [res |-> "ok", val |-> pre_last_total + last_item.val, mr |-> last_item.mr]

\* the last source is the live file at <path>; origin keeps its size at construction
InitGrow ==
    /\ \E n \in 1..MaxItems :
          /\ fsize \in [1..n -> 0..MaxSize]
          /\ mr = Multireader_new(fsize, [k \in 1..n |-> k])
          /\ paths = <<n, 0, 0>>
          /\ origin = [by |-> "built", at |-> fsize[n]]
    /\ registry = NoRegistry
    /\ rd = "multireader"
    /\ inodes = <<>>
    /\ already_freed = FALSE
    /\ last = Call("new", 0, "ok", 0, 0, "", FALSE)
    /\ delivered = <<>>

GrowRead == ReadOp(FALSE)

GrowSeek ==
    \E pos \in SeekFroms(get_total_size(fsize, mr)) :
        Returned("seek", pos, seek(fsize, mr, pos))

GrowTotalSize == Returned("get_total_size", 0, get_total_size_ret(fsize, mr))

GrowLastItemSize == Returned("get_last_item_size", 0, get_last_item_size_ret(fsize, mr))

NextGrow == AppendLog \/ GrowRead \/ GrowSeek \/ GrowTotalSize \/ GrowLastItemSize

SpecGrow == InitGrow /\ [][NextGrow]_vars

-----------------------------------------------------------------------------
(* SpecRetry: a fresh Multireader whose sources fail some of the reads *)

\* variant: the offset is advanced although the item returned an error
read_failed_advancing(m) == [m EXCEPT !.global_offset = @ + 1]

\* Read::read when the read of the current item returns Err: `?` returns before
\* global_offset is touched, and an item that returns an error has read no bytes
read_failed(m) == m

RetryRead == ReadOp(TRUE)

RetryReadFails ==
    /\ rd # "none"
    /\ mr' = read_failed(mr)
    /\ last' = Call("read", 0, "io", 0, 0, "", TRUE)
    /\ UNCHANGED <<fsize, paths, registry, rd, inodes, already_freed, delivered, origin>>

NextRetry == RetryRead \/ RetryReadFails

SpecRetry == InitMR /\ [][NextRetry]_vars

-----------------------------------------------------------------------------
(* SpecFault: a fresh Multireader whose sources fail some of the seeks *)

\* Seek::seek(SeekFrom::Start(offset)) when the seek of the item at index `failing`
\* returns Err: global_offset is assigned first, the items in front of the failing one
\* have been repositioned, and `?` returns at the failing one, whose cursor and the
\* cursors of the items behind it are as they were
seek_start_failed(sz, m, offset, failing) ==
    LET m1 == [m EXCEPT !.global_offset = offset]
        item_index == get_current_item_index(m1)
        local_offset == get_local_offset(m1)
    IN [m1 EXCEPT !.pos = [j \in 1..Len(m.items) |->
                              IF j - 1 >= failing THEN m.pos[j]
                              ELSE IF j - 1 < item_index THEN sz[m.items[j]]
                              ELSE IF j - 1 = item_index THEN local_offset
                              ELSE 0]]

FaultRead == ReadOp(FALSE)

FaultSeek == SeekOp(FALSE, 0..(SumSizes(fsize, mr.items, len(mr)) + 1))

\* a seek(SeekFrom::Start(o)) in which one of the items returns an I/O error
FaultSeekFails ==
    /\ rd # "none"
    /\ \E o \in 0..(SumSizes(fsize, mr.items, len(mr)) + 1), failing \in 0..(len(mr) - 1) :
          /\ mr' = seek_start_failed(fsize, mr, o, failing)
          /\ last' = Call("seek", o, "io", 0, 0, failing, TRUE)
    /\ UNCHANGED <<fsize, paths, registry, rd, inodes, already_freed, delivered, origin>>

NextFault == FaultRead \/ FaultSeek \/ FaultSeekFails

SpecFault == InitMR /\ [][NextFault]_vars

-----------------------------------------------------------------------------
(* SpecWide: a Multireader over in-memory sources (io::Cursor, which accepts every
   Start position) whose offsets range over the whole of u64; words are Bits wide *)

\* the width of u64 and i64, scaled down from 64
Bits == 4

RECURSIVE Pow2(_)
Pow2(n) == IF n = 0 THEN 1 ELSE 2 * Pow2(n - 1)

u64_MAX == Pow2(Bits) - 1

i64_MAX == Pow2(Bits - 1) - 1

i64_MIN == 0 - Pow2(Bits - 1)

\* `u as i64`: the same bits read as two's complement
as_i64(u) == IF u > i64_MAX THEN u - Pow2(Bits) ELSE u

\* `i as u64`
as_u64(i) == IF i < 0 THEN i + Pow2(Bits) ELSE i

\* i64 + i64 in a build without overflow checks
wrapping_add(a, b) ==
    IF a + b > i64_MAX THEN a + b - Pow2(Bits)
    ELSE IF a + b < i64_MIN THEN a + b + Pow2(Bits)
    ELSE a + b

\* Seek::seek(SeekFrom::Current(offset)) at the width of the machine: the addition
\* panics on overflow in a build with overflow checks and wraps in one without
seek_current(sz, m, offset, overflow_checks) ==
    LET a == as_i64(m.global_offset)
    IN IF overflow_checks /\ (a + offset > i64_MAX \/ a + offset < i64_MIN)
       THEN Ret("panic", 0, m)
       ELSE LET new_position == wrapping_add(a, offset)
            IN IF new_position < 0 THEN Ret("invalid", 0, m)
               ELSE Ret("ok", as_u64(new_position),
                        seek_start(sz, m, as_u64(new_position)))

\* a call that returned r, at any offset
ReturnedWide(arg, r) ==
    /\ rd # "none"
    /\ mr' = r.mr
    /\ last' = Call("seek", arg, r.res, r.val, 0, "", FALSE)
    /\ UNCHANGED <<fsize, paths, registry, rd, inodes, already_freed, delivered, origin>>

WideSeekStart ==
    \E o \in 0..u64_MAX : ReturnedWide(Start(o), Ret("ok", o, seek_start(fsize, mr, o)))

WideSeekCurrent ==
    \E d \in i64_MIN..i64_MAX, overflow_checks \in BOOLEAN :
        ReturnedWide(Current(d), seek_current(fsize, mr, d, overflow_checks))

WideRead == ReadOp(FALSE)

NextWide == WideSeekStart \/ WideSeekCurrent \/ WideRead

SpecWide == InitMR /\ [][NextWide]_vars

-----------------------------------------------------------------------------
(* Properties *)

RECURSIVE ReadToEnd(_, _)
\* Read::read_to_end: read until a read returns 0, and collect what was returned
ReadToEnd(sz, m) ==
    IF Available(sz, m) = 0 THEN <<>>
    ELSE ReadBytes(m, Available(sz, m)) \o ReadToEnd(sz, read(m, Available(sz, m)))

\* the log generations in creation order: inodes are handed out in that order
Generations == [i \in 1..Len(fsize) |-> i]

\* the registry holds a record that decodes
Loaded(reg) == reg.exists /\ State_load(reg.bytes).res = "ok"

Record(reg) == State_load(reg.bytes).state[1]

RotatedOnce ==
    /\ Loaded(registry)
    /\ paths[2] # 0
    /\ Record(registry).inode = paths[2]
    /\ paths[1] # paths[2]

\* what C2 promises of new: items [X, Y], global offset o, and a read to the end that
\* yields the rest of X from o and then all of Y
RotatedOnceResumed ==
    LET X == paths[2]
        Y == paths[1]
        o == Record(registry).offset
    IN /\ last'.res = "ok" /\ rd' = "open"
       /\ mr'.items = <<X, Y>> /\ inodes' = <<X, Y>>
       /\ get_global_offset(mr') = o
       /\ ReadToEnd(fsize', mr') = Bytes(X, o, fsize[X]) \o Bytes(Y, 0, fsize[Y])

\* C2 as stated: for every saved offset o, when the registry holds (X, o), X is at
\* <path>.1 and another file Y is at <path>, new returns the items [X, Y] at global
\* offset o, and reading to the end yields bytes o..end of X, then all of Y.
C2_AnyOffset ==
    [][RotatedOnce /\ New /\ ~last'.faulted => RotatedOnceResumed]_vars

\* C2, for a saved offset that lies within X (o <= size of X): when the registry
\* holds (X, o), X is at <path>.1 and another file Y is at <path>, new returns the
\* items [X, Y] at global offset o, and reading to the end yields bytes o..end of X,
\* then all of Y.
C2_OffsetWithinFile ==
    [][RotatedOnce /\ Record(registry).offset <= fsize[paths[2]] /\ New /\ ~last'.faulted
          => RotatedOnceResumed]_vars

\* new has just opened the rotated file and the live one, resuming inside the older
C2_Witness ==
    /\ rd = "open" /\ last.op = "new" /\ len(mr) = 2
    /\ 0 < mr.global_offset /\ mr.global_offset < mr.offsets[1]
    /\ fsize[mr.items[2]] > 0

\* C3: when the registry holds (X, o) and the live file still has inode X, new opens
\* the live file alone, with global offset = local offset = o and the file's cursor
\* at o, so that the next read returns byte o of the live file.
C3_ResumeSameFile ==
    [][Loaded(registry) /\ Record(registry).inode = paths[1] /\ New /\ ~last'.faulted
          => LET X == paths[1]
                 o == Record(registry).offset
             IN /\ last'.res = "ok" /\ rd' = "open"
                /\ mr'.items = <<X>> /\ inodes' = <<X>>
                /\ get_global_offset(mr') = o
                /\ get_local_offset(mr') = o
                /\ mr'.pos[1] = o
                /\ (o < fsize[X] => ReadBytes(mr', 1) = <<<<X, o>>>>)]_vars

\* new has just resumed inside the live file, with bytes left to read
C3_Witness ==
    /\ rd = "open" /\ last.op = "new" /\ len(mr) = 1
    /\ 0 < mr.global_offset /\ mr.global_offset < fsize[mr.items[1]]
    /\ mr.pos[1] = mr.global_offset

\* C4: when the saved inode is neither the live file nor the file at <path>.1 (also
\* when there is no <path>.1), new fails with the rotation-resolution kind and hands
\* out no reader.
C4_LostFileIsRotationError ==
    [][Loaded(registry) /\ Record(registry).inode \notin {paths[1], paths[2]}
          /\ New /\ ~last'.faulted
          => last'.res = "rotation" /\ rd' = "none"]_vars

\* C5: when new fails because loading the record or building the reader over the log
\* files failed, the registry file is neither created nor modified.
C5_FailedOpenLeavesRegistry ==
    [][New /\ last'.res # "ok"
          /\ last'.at \in {"maybe_read_state", "open_files", "Multireader_new"}
          => registry' = registry]_vars

\* C6: when no registry existed and new returns Ok, the registry holds a decodable
\* record (inode of the live file, offset 0); and the new that follows a run ended
\* without close or drop does not fail with the persistence kind.
C6_RegistryInitialised ==
    [][/\ (~registry.exists /\ New /\ last'.res = "ok"
              => /\ registry'.exists
                 /\ State_load(registry'.bytes)
                       = [res |-> "ok", state |-> Some([offset |-> 0, inode |-> paths[1]])])
       /\ (last.op = "forget" /\ New /\ ~last'.faulted => last'.res # "persistence")]_vars

\* new has just created the registry and written its first record
C6_Witness ==
    /\ rd = "open" /\ last.op = "new" /\ last.writes = 1
    /\ Loaded(registry) /\ Record(registry).offset = 0

\* C7: a close that succeeds and a drop without close leave the same registry: the
\* record is get_persistent_state() of the reader at that moment, written by exactly
\* one persist (the drop that follows a successful close writes nothing).
C7_ReleasePersistsOnce ==
    [][(Close \/ Drop) /\ last'.res = "ok"
          => /\ State_load(registry'.bytes)
                   = [res |-> "ok", state |-> Some(get_persistent_state(mr, inodes))]
             /\ last'.writes = 1]_vars

\* a reader that had advanced was closed successfully
C7_Witness ==
    /\ last.op = "close" /\ last.res = "ok" /\ rd = "none"
    /\ Loaded(registry) /\ Record(registry).offset > 0

\* C8: close never panics: a persist that fails is returned to the caller as an error.
C8_CloseNeverPanics == last.op = "close" => last.res # "panic"

\* C9: reading a freshly built Multireader until a read returns 0 yields the sources
\* concatenated; then global_offset is the total size, the current item is the last
\* one and the local offset is the size of the last source.
C9_ReadAll ==
    (origin.by = "new" /\ last.op = "read" /\ last.val = 0)
        => /\ delivered = Concat(fsize, mr.items, 1)
           /\ get_global_offset(mr) = SumSizes(fsize, mr.items, len(mr))
           /\ get_current_item_index(mr) = len(mr) - 1
           /\ get_local_offset(mr) = fsize[mr.items[len(mr)]]

\* a fresh reader was read to its end across a seam
C9_Witness ==
    /\ origin.by = "new" /\ last.op = "read" /\ last.val = 0
    /\ len(mr) >= 2 /\ Len(delivered) >= 3

\* C10: seek(Start(o)) returns o and leaves global_offset = o (also past the end), the
\* current item is the largest k whose start offset is <= o, and the local offset is
\* o minus that start offset.
C10_SeekStart ==
    [][MRSeek
          => LET o == last'.arg
                 k == get_current_item_index(mr')
                 StartOf(j) == SumSizes(fsize, mr.items, j)
             IN /\ last'.res = "ok" /\ last'.val = o
                /\ get_global_offset(mr') = o
                /\ k \in 0..(len(mr) - 1)
                /\ StartOf(k) <= o
                /\ \A j \in 0..(len(mr) - 1) : StartOf(j) <= o => j <= k
                /\ get_local_offset(mr') = o - StartOf(k)]_vars

\* a seek past the end of the last of several sources
C10_Witness ==
    /\ last.op = "seek" /\ len(mr) >= 2
    /\ last.arg > SumSizes(fsize, mr.items, len(mr))
    /\ mr.global_offset = last.arg

\* start offset of item k (0-based): the sizes of the items before it
StartOf(k) == SumSizes(fsize, mr.items, k)

\* C11: after seek(Start(o)) with o <= total size, from any state reached by reads and
\* seeks, a read to the end yields bytes o..end of the concatenated items, whatever
\* the sizes of the reads: the seek leaves every item below the new current item at
\* its end, the current item at its local offset and every item above it at 0.
C11_SeekThenReadToEnd ==
    /\ [][MRSeek /\ last'.arg <= get_total_size(fsize, mr)
             => LET o == last'.arg
                    k == get_current_item_index(mr')
                IN /\ ReadToEnd(fsize, mr')
                         = SubSeq(Concat(fsize, mr.items, 1), o + 1, get_total_size(fsize, mr))
                   /\ \A j \in 1..len(mr) :
                         mr'.pos[j] = IF j - 1 < k THEN fsize[mr.items[j]]
                                      ELSE IF j - 1 = k THEN get_local_offset(mr')
                                      ELSE 0]_vars
    /\ []((origin.by = "seek" /\ origin.at <= get_total_size(fsize, mr)
              /\ last.op = "read" /\ last.val = 0)
             => delivered = SubSeq(Concat(fsize, mr.items, 1), origin.at + 1,
                                   get_total_size(fsize, mr)))

\* after a seek into the first of several items, the reads went on to the end of the
\* last one, across a seam
C11_Witness ==
    /\ origin.by = "seek" /\ last.op = "read" /\ last.val = 0
    /\ len(mr) >= 2 /\ 0 < origin.at /\ origin.at < mr.offsets[1]
    /\ delivered[Len(delivered)][1] = mr.items[len(mr)]

\* the current item and the local offset agree with global_offset
LocalOffsetAgrees ==
    get_local_offset(mr) = get_global_offset(mr) - StartOf(get_current_item_index(mr))

\* C12 as stated: in every reachable state, when global_offset is the start offset of
\* item k, get_current_item_index() returns k and get_local_offset() returns 0; and
\* get_local_offset() is global_offset minus the sizes of the items before the current.
C12_EveryStartOffset ==
    /\ \A k \in 0..(len(mr) - 1) :
          get_global_offset(mr) = StartOf(k)
              => get_current_item_index(mr) = k /\ get_local_offset(mr) = 0
    /\ LocalOffsetAgrees

\* C12, for an item k that is not empty or is the last one: in every reachable state,
\* when global_offset is the start offset of item k, get_current_item_index() returns
\* k and not k - 1, and get_local_offset() returns 0; and get_local_offset() is
\* global_offset minus the sizes of the items before the current item.
C12_StartOffsetOfItem ==
    /\ \A k \in 0..(len(mr) - 1) :
          (get_global_offset(mr) = StartOf(k) /\ (k = len(mr) - 1 \/ fsize[mr.items[k + 1]] > 0))
              => get_current_item_index(mr) = k /\ get_local_offset(mr) = 0
    /\ LocalOffsetAgrees

\* a read has just taken the last byte of an item that is followed by a non-empty one
C12_Witness ==
    /\ last.op = "read" /\ last.val > 0 /\ len(mr) >= 2
    /\ \E k \in 1..(len(mr) - 1) :
          /\ get_global_offset(mr) = StartOf(k)
          /\ fsize[mr.items[k + 1]] > 0
          /\ get_current_item_index(mr) = k

\* C13: every read that returns m bytes adds m to global_offset and every consume(amt)
\* adds amt, so that a fresh reader consumed by any interleaving of reads and
\* fill_buf/consume has global_offset = the number of bytes delivered.
C13_OffsetCountsDelivered ==
    /\ [][/\ BufRead => get_global_offset(mr') = get_global_offset(mr) + last'.val
          /\ BufConsume => get_global_offset(mr') = get_global_offset(mr) + last'.arg]_vars
    /\ [](get_global_offset(mr) = Len(delivered))

\* bytes were consumed from the second item after the first was taken
C13_Witness ==
    /\ last.op = "consume" /\ last.arg > 0
    /\ get_current_item_index(mr) >= 1 /\ get_local_offset(mr) > 0
    /\ fsize[mr.items[1]] > 0

\* C14: seek(Start(o)) with o past the total size succeeds and stores o as it is; the
\* current item stays within the items and the local offset is o minus the start of
\* the last item (nothing underflows, nothing is indexed out of range); the read that
\* follows returns 0 bytes and leaves global_offset at o.
C14_SeekPastEnd ==
    [][/\ (MRSeek /\ last'.arg > get_total_size(fsize, mr))
             => /\ last'.res = "ok" /\ last'.val = last'.arg
                /\ get_global_offset(mr') = last'.arg
                /\ get_current_item_index(mr') = len(mr) - 1
                /\ get_local_offset(mr') = last'.arg - StartOf(len(mr) - 1)
       /\ (last.op = "seek" /\ last.arg > get_total_size(fsize, mr) /\ MRRead)
             => /\ last'.res = "ok" /\ last'.val = 0
                /\ get_global_offset(mr') = last.arg]_vars

\* a read after a seek past the end returned nothing
C14_Witness ==
    /\ origin.by = "seek" /\ origin.at > get_total_size(fsize, mr)
    /\ last.op = "read" /\ last.val = 0
    /\ get_global_offset(mr) = origin.at
    /\ get_total_size(fsize, mr) > 0

\* the step is a call of op: every call leaves its name, argument and result in last
Called(op) == last'.op = op

\* C15: seek(Current(d)) with global_offset + d < 0 and seek(End(d)) with total size
\* + d < 0 fail with an invalid-input error and leave global_offset and the cursor of
\* every item as they were.
C15_NegativeTargetRejected ==
    [][(/\ Called("seek")
        /\ \/ last'.arg.kind = "Current" /\ get_global_offset(mr) + last'.arg.off < 0
           \/ last'.arg.kind = "End" /\ get_total_size(fsize, mr) + last'.arg.off < 0)
          => /\ last'.res = "invalid"
             /\ get_global_offset(mr') = get_global_offset(mr)
             /\ mr'.pos = mr.pos]_vars

\* a reader that had moved refused a seek to before the start, counted from the end
C15_Witness ==
    /\ last.op = "seek" /\ last.res = "invalid" /\ last.arg.kind = "End"
    /\ get_global_offset(mr) > 0 /\ len(mr) >= 2
    /\ mr.pos[1] > 0

\* C16: in every state reachable through the public operations, seek(Current(0))
\* succeeds and changes nothing a caller can observe: global_offset, the current
\* item, the local offset, and the bytes the reads that follow return.
C16_SeekCurrentZeroIsNoOp ==
    [][(Called("seek") /\ last'.arg = Current(0))
          => /\ last'.res = "ok"
             /\ get_global_offset(mr') = get_global_offset(mr)
             /\ get_current_item_index(mr') = get_current_item_index(mr)
             /\ get_local_offset(mr') = get_local_offset(mr)
             /\ ReadToEnd(fsize, mr') = ReadToEnd(fsize, mr)]_vars

\* C17: get_current_item_size() returns None exactly when the current item is the
\* last one and Some(size of the current item) otherwise, and never panics.
C17_CurrentItemSize ==
    LET current_index == get_current_item_index(mr)
    IN get_current_item_size(mr)
          = [res |-> "ok",
             val |-> IF current_index = len(mr) - 1 THEN None
                     ELSE Some(fsize[mr.items[current_index + 1]])]

\* C18: seek_current_item(pos), for every pos it accepts, returns the local offset
\* after the seek: the value returned is get_local_offset() right after the call, the
\* current item is the one it was, and global_offset is its start offset plus the
\* value returned.
C18_SeekCurrentItemReturnsLocal ==
    [][(Called("seek_current_item") /\ last'.res = "ok")
          => /\ last'.val = get_local_offset(mr')
             /\ get_current_item_index(mr') = get_current_item_index(mr)
             /\ get_global_offset(mr') = StartOf(get_current_item_index(mr)) + last'.val]_vars

\* C19: seek_to_item_start(i) returns, and sets global_offset to, the sizes of the
\* items 0..i-1, and a read to the end then yields the items i..n-1 concatenated;
\* seek_by_local_index(i, Start(p)) with p inside item i (p < its size) sets
\* global_offset to that sum plus p, the current item to i and the local offset to p.
C19_SeekToItem ==
    [][/\ Called("seek_to_item_start")
             => LET i == last'.arg
                IN /\ last'.res = "ok" /\ last'.val = StartOf(i)
                   /\ get_global_offset(mr') = StartOf(i)
                   /\ ReadToEnd(fsize, mr') = Concat(fsize, mr.items, i + 1)
       /\ (Called("seek_by_local_index") /\ last'.arg.pos.off < fsize[mr.items[last'.arg.item + 1]])
             => LET i == last'.arg.item
                    p == last'.arg.pos.off
                IN /\ last'.res = "ok" /\ last'.val = p
                   /\ get_global_offset(mr') = StartOf(i) + p
                   /\ get_current_item_index(mr') = i
                   /\ get_local_offset(mr') = p]_vars

\* a reader standing in its first item was moved into the middle of a later one
C19_Witness ==
    /\ last.op = "seek_by_local_index" /\ last.res = "ok"
    /\ last.arg.item >= 1 /\ last.arg.pos.off >= 1
    /\ last.arg.pos.off < fsize[mr.items[last.arg.item + 1]]
    /\ get_current_item_index(mr) = last.arg.item
    /\ StartOf(last.arg.item) > 0

\* C20: for every state of an InodeAwareReader over files of pairwise distinct inodes
\* reached by reads and seek(Start(..)), seek_persistent(get_persistent_offset())
\* succeeds and leaves global_offset, the current item, the local offset and the bytes
\* of the reads that follow as they were.
C20_PersistentRoundTrip ==
    [][IARoundTrip
          => /\ last'.res = "ok"
             /\ get_global_offset(mr') = get_global_offset(mr)
             /\ get_current_item_index(mr') = get_current_item_index(mr)
             /\ get_local_offset(mr') = get_local_offset(mr)
             /\ ReadToEnd(fsize, mr') = ReadToEnd(fsize, mr)]_vars

\* the round trip was made from the middle of a later item, with bytes left to read
C20_Witness ==
    /\ last.op = "seek_persistent" /\ last.res = "ok"
    /\ get_current_item_index(mr) >= 1 /\ get_local_offset(mr) > 0
    /\ last.arg = get_persistent_offset(mr, inodes)
    /\ ReadToEnd(fsize, mr) # <<>>

\* C21: seek_persistent((inode, offset)) with an inode that is not among the reader's
\* inodes fails with a not-found error and leaves global_offset and the cursor of
\* every item as they were.  (A step that keeps last and changes the size of a file
\* is an append to the log, not a call.)
C21_UnknownInodeNotFound ==
    [][(Called("seek_persistent") /\ fsize' = fsize
           /\ \A k \in 1..Len(inodes) : inodes[k] # last'.arg.inode)
          => /\ last'.res = "not_found"
             /\ get_global_offset(mr') = get_global_offset(mr)
             /\ mr'.pos = mr.pos]_vars

\* a reader over two files that had moved was asked for an inode it does not hold
C21_Witness ==
    /\ last.op = "seek_persistent" /\ last.res = "not_found"
    /\ len(mr) >= 2 /\ get_global_offset(mr) > 0
    /\ \A k \in 1..Len(inodes) : inodes[k] # last.arg.inode

\* 0-based index of the item with that inode
IndexOf(inode) == (CHOOSE j \in 1..Len(inodes) : inodes[j] = inode) - 1

\* whether an item has that inode
Present(inode) == \E j \in 1..Len(inodes) : inodes[j] = inode

\* the order of the pairs (index of the inode, offset)
Lexicographic(A, B) ==
    IF IndexOf(A.inode) < IndexOf(B.inode) THEN "Less"
    ELSE IF IndexOf(A.inode) > IndexOf(B.inode) THEN "Greater"
    ELSE IF A.offset < B.offset THEN "Less"
    ELSE IF A.offset > B.offset THEN "Greater"
    ELSE "Equal"

\* the ordering seen from the other side
Reversed(o) == IF o = "Less" THEN "Greater" ELSE IF o = "Greater" THEN "Less" ELSE o

\* C22: compare_offsets(A, B) is None when the inode of A or of B is not among the
\* reader's inodes, and otherwise the lexicographic comparison of (index of A.inode,
\* A.offset) with (index of B.inode, B.offset); over offsets whose inodes are present
\* it is antisymmetric and transitive.
C22_CompareOffsets ==
    [][Called("compare_offsets")
          => LET A == last'.arg.first
                 B == last'.arg.second
             IN IF ~Present(A.inode) \/ ~Present(B.inode) THEN last'.val = None
                ELSE /\ last'.val = Some(Lexicographic(A, B))
                     /\ compare_offsets(inodes, B, A) = Some(Reversed(last'.val[1]))
                     /\ \A C \in InodeAwareOffsets(inodes) :
                           (Present(C.inode) /\ last'.val = Some("Less")
                               /\ compare_offsets(inodes, B, C) = Some("Less"))
                              => compare_offsets(inodes, A, C) = Some("Less")]_vars

\* a larger offset in an older file was found to come before a smaller one in a newer
C22_Witness ==
    /\ last.op = "compare_offsets" /\ last.val = Some("Less")
    /\ last.arg.first.offset > last.arg.second.offset
    /\ Present(last.arg.first.inode) /\ Present(last.arg.second.inode)

\* the largest m <= D such that <path>.1 .. <path>.m all exist
Predecessors(D) ==
    CHOOSE m \in 0..D :
        /\ \A i \in 1..m : paths[i + 1] # 0
        /\ (m = D \/ paths[m + 2] = 0)

\* C23: for search depth D the reader's items are <path>.m, ..., <path>.1, <path>,
\* oldest first and the live file last, where m is the largest value <= D such that
\* <path>.1 .. <path>.m all exist (the search stops at the first missing suffix, and
\* a file behind the gap is left out), and inodes[i] is the inode of item i.
C23_RotatedLogsFound ==
    [][(Called("from_rotated_logs_with_depth") /\ LogsOpen /\ paths[1] # 0)
          => LET m == Predecessors(last'.arg)
             IN /\ last'.res = "ok" /\ rd' = "inode_aware"
                /\ last'.val = [k \in 1..(m + 1) |->
                                   [path |-> m + 1 - k, inode |-> paths[m + 2 - k]]]
                /\ mr'.items = [k \in 1..(m + 1) |-> paths[m + 2 - k]]
                /\ inodes' = [k \in 1..(m + 1) |-> paths[m + 2 - k]]]_vars

\* with <path>.1 removed and <path>.2 still there, a search of depth 2 found the live
\* file alone
C23_Witness ==
    /\ last.op = "from_rotated_logs_with_depth" /\ last.res = "ok" /\ last.arg = 2
    /\ paths[2] = 0 /\ paths[3] # 0
    /\ rd = "inode_aware" /\ inodes = <<paths[1]>>

\* C24: two consecutive persist() calls on a TrackedReader, with no read or seek in
\* between, leave the registry with byte-identical content, and that content decodes
\* to get_persistent_state().
C24_PersistTwice ==
    [][(Called("persist") /\ last.op = "persist" /\ last'.val = last.val + 1)
          => /\ registry'.bytes = registry.bytes
             /\ State_load(registry'.bytes)
                   = [res |-> "ok", state |-> Some(get_persistent_state(mr', inodes'))]]_vars

\* a reader over two files that had advanced was saved twice in a row
C24_Witness ==
    /\ rd = "open" /\ last.op = "persist" /\ last.val = 2
    /\ len(mr) = 2 /\ get_global_offset(mr) > 0
    /\ Loaded(registry) /\ Record(registry) = get_persistent_state(mr, inodes)

\* C25: every failure of new while the registry record is loaded or saved (a record
\* that is truncated or does not decode, a failing read of the registry during load,
\* a failing write of the registry in the initial persist) is reported as the
\* Persistence kind, and a failing operation on a log file as the I/O kind.
C25_ErrorKinds ==
    [][(Called("new") /\ New /\ last'.res # "ok")
          => /\ (last'.at = "maybe_read_state" /\ ~last'.faulted)
                   => last'.res = "persistence"
             /\ registry.exists
                   => maybe_read_state(registry, "registry_read").res = "persistence"
             /\ last'.at = "persist" => last'.res = "persistence"
             /\ (last'.at \in {"open_files", "Multireader_new"} /\ last'.faulted)
                   => last'.res = "io"]_vars

\* the sizes of all items but the last
BeforeLast == SumSizes(fsize, mr.items, len(mr) - 1)

\* the size of the last item now
LastNow == fsize[mr.items[len(mr)]]

\* C26: seek(End(d)) moves the reader to the sizes of all items but the last, plus the
\* size the last item has when the call is made, plus d; after the last item has
\* grown by g bytes since construction, seek(End(0)) reaches an offset g above the
\* total size at construction, and get_total_size() returns that re-measured total.
C26_SeekEndMeasuresAgain ==
    [][/\ (Called("seek") /\ fsize' = fsize /\ last'.arg.kind = "End"
              /\ BeforeLast + LastNow + last'.arg.off >= 0)
             => /\ last'.res = "ok"
                /\ last'.val = BeforeLast + LastNow + last'.arg.off
                /\ get_global_offset(mr') = BeforeLast + LastNow + last'.arg.off
                /\ last'.arg.off = 0
                      => get_global_offset(mr')
                            = (BeforeLast + origin.at) + (LastNow - origin.at)
       /\ (Called("get_total_size") /\ fsize' = fsize)
             => last'.res = "ok" /\ last'.val = BeforeLast + LastNow]_vars

\* the last of several items had grown when the reader was moved to the end
C26_Witness ==
    /\ last.op = "seek" /\ last.res = "ok" /\ last.arg = End(0)
    /\ len(mr) >= 2 /\ fsize[mr.items[len(mr)]] > origin.at
    /\ get_global_offset(mr) = SumSizes(fsize, mr.items, len(mr))
    /\ mr.offsets[1] > 0

\* C29: get_total_size() and get_last_item_size() do not move the reader: after
\* either returns Ok, global_offset, the current item and the cursor of every item,
\* the last one included, are what they were, and the next read returns the bytes it
\* would have returned without the query.
C29_SizeQueriesKeepPosition ==
    [][((Called("get_total_size") \/ Called("get_last_item_size"))
           /\ fsize' = fsize /\ last'.res = "ok")
          => /\ get_global_offset(mr') = get_global_offset(mr)
             /\ get_current_item_index(mr') = get_current_item_index(mr)
             /\ mr'.pos = mr.pos
             /\ fill_buf(fsize', mr') = fill_buf(fsize, mr)]_vars

\* the total size was asked for while the last item was partly read
C29_Witness ==
    /\ last.op = "get_total_size" /\ last.res = "ok"
    /\ len(mr) >= 2 /\ get_current_item_index(mr) = len(mr) - 1
    /\ 0 < mr.pos[len(mr)] /\ mr.pos[len(mr)] < fsize[mr.items[len(mr)]]
    /\ last.val = SumSizes(fsize, mr.items, len(mr))

\* C27: after every successful public operation of a Multireader, with k the current
\* item, the cursor of item k is at get_local_offset(), every item before k is at its
\* end and every item behind k is at 0.
C27_CursorCoherence ==
    last.res = "ok"
        => LET k == get_current_item_index(mr)
           IN \A j \in 1..len(mr) :
                 mr.pos[j] = IF j - 1 < k THEN fsize[mr.items[j]]
                             ELSE IF j - 1 = k THEN get_local_offset(mr)
                             ELSE 0

\* C28: a read takes its bytes from one item, the one global_offset selects when the
\* call is made; and while a reader is read from a state reached by new, reads and
\* seek(Start(..)), a read returns 0 only with global_offset at or behind the end of
\* the last item, never at the end of an item that is followed by unread bytes.
C28_ReadOneItem ==
    [][MRRead
          => /\ LET returned == SubSeq(delivered', Len(delivered) + 1, Len(delivered'))
                IN /\ Len(returned) = last'.val
                   /\ \A i \in 1..Len(returned) :
                         returned[i][1] = mr.items[get_current_item_index(mr) + 1]
             /\ last'.val = 0
                   => /\ get_global_offset(mr) >= SumSizes(fsize, mr.items, len(mr))
                      /\ ReadToEnd(fsize, mr) = <<>>]_vars

\* a read that began at a seam returned bytes of the item behind the seam
C28_Witness ==
    /\ last.op = "read" /\ last.val > 0
    /\ get_current_item_index(mr) >= 1
    /\ get_local_offset(mr) = last.val
    /\ mr.offsets[1] > 0
    /\ delivered # <<>> /\ delivered[Len(delivered)][1] = mr.items[get_current_item_index(mr) + 1]

\* C30: a read that fails with an I/O error leaves global_offset as it was and the
\* reader usable: the reads made after the failure return the bytes the failed read
\* would have returned, and over all reads no byte is skipped and none is repeated.
C30_FailedReadChangesNothing ==
    /\ [][(Called("read") /\ last'.res = "io")
             => /\ get_global_offset(mr') = get_global_offset(mr)
                /\ ReadToEnd(fsize, mr') = ReadToEnd(fsize, mr)]_vars
    /\ [](/\ IsPrefix(delivered, Concat(fsize, mr.items, 1))
          /\ get_global_offset(mr) = Len(delivered)
          /\ delivered \o ReadToEnd(fsize, mr) = Concat(fsize, mr.items, 1))

\* a read failed in the middle of the stream, behind a seam, with bytes left
C30_Witness ==
    /\ last.op = "read" /\ last.res = "io"
    /\ get_current_item_index(mr) >= 1 /\ mr.offsets[1] > 0
    /\ delivered # <<>> /\ ReadToEnd(fsize, mr) # <<>>

\* C31: a seek(Start(o)) that fails because the seek of one of the items returned an
\* I/O error leaves global_offset and the index of the current item at the values
\* they had before the call.
C31_FailedSeekChangesNothing ==
    [][(Called("seek") /\ last'.res = "io")
          => /\ get_global_offset(mr') = get_global_offset(mr)
             /\ get_current_item_index(mr') = get_current_item_index(mr)]_vars

\* C32: seek(Current(d)) sets global_offset to global_offset + d whenever that sum,
\* taken in the integers, is not negative and fits in u64, and fails with invalid
\* input only when the sum is negative, also from a global_offset at or above the
\* middle of the range of u64; the signed addition neither wraps nor panics.
C32_SeekCurrentExact ==
    [][(Called("seek") /\ last'.arg.kind = "Current")
          => LET sum == get_global_offset(mr) + last'.arg.off
             IN /\ (0 <= sum /\ sum <= u64_MAX)
                      => last'.res = "ok" /\ get_global_offset(mr') = sum
                /\ last'.res = "invalid" => sum < 0
                /\ last'.res # "panic"]_vars

\* the reader's items are <path>.m, ..., <path>.1, <path> of the paths as they are
ItemsFollowPaths ==
    /\ rd = "inode_aware"
    /\ inodes = [j \in 1..len(mr) |-> paths[len(mr) + 1 - j]]
    /\ mr.items = inodes

\* the reader holds k predecessors or more and the call names the file at <path>.k
SavedAt(k) ==
    /\ ItemsFollowPaths
    /\ 1 <= k /\ k <= len(mr) - 1
    /\ last'.arg.inode = paths[k + 1]

\* the call succeeded, and reading to the end yields bytes o..end of <path>.k, then
\* all of <path>.(k-1), ..., <path>.1 and the live file
ResumedAt(k) ==
    LET X == paths[k + 1]
        o == last'.arg.offset
    IN /\ last'.res = "ok"
       /\ ReadToEnd(fsize', mr')
             = Bytes(X, o, fsize[X]) \o Concat(fsize, mr.items, len(mr) - k + 1)

\* C33 as stated: for a reader built with depth D over <path>.k .. <path>.1 and
\* <path> (1 <= k <= D) and every offset o, seek_persistent((X, o)) with X the file at
\* <path>.k succeeds, and reading to the end yields bytes o..end of <path>.k followed
\* by all of <path>.(k-1), ..., <path>.1 and the live file, in that order.
C33_AnySavedOffset ==
    [][\A k \in 1..MaxFiles :
          (Called("seek_persistent") /\ fsize' = fsize /\ SavedAt(k)) => ResumedAt(k)]_vars

\* C33, for a saved offset that lies within <path>.k (o <= its size): for a reader
\* built with depth D over <path>.k .. <path>.1 and <path> (1 <= k <= D),
\* seek_persistent((X, o)) with X the file at <path>.k succeeds, and reading to the
\* end yields bytes o..end of <path>.k followed by all of <path>.(k-1), ..., <path>.1
\* and the live file, in that order, with no byte lost and none repeated.
C33_SavedOffsetWithinFile ==
    [][\A k \in 1..MaxFiles :
          (Called("seek_persistent") /\ fsize' = fsize /\ SavedAt(k)
              /\ last'.arg.offset <= fsize[paths[k + 1]])
             => ResumedAt(k)]_vars

\* a reader over <path>.2, <path>.1 and <path> was sent into the middle of <path>.2,
\* with bytes in both files behind it
C33_Witness ==
    /\ rd = "inode_aware" /\ len(mr) = 3
    /\ inodes = <<paths[3], paths[2], paths[1]>>
    /\ last.op = "seek_persistent" /\ last.res = "ok"
    /\ last.arg.inode = paths[3]
    /\ 0 < last.arg.offset /\ last.arg.offset < fsize[paths[3]]
    /\ fsize[paths[2]] > 0 /\ fsize[paths[1]] > 0
    /\ get_global_offset(mr) = last.arg.offset

=============================================================================
